---- MODULE Spec2Model ----
(***************************************************************************)
(* Model of search-demand-cascading.py: a Streamlit script that loads a    *)
(* keyword/date/search_volume table (sample or uploaded CSV), parses the   *)
(* dates, drops unusable rows, smooths and transforms the values per       *)
(* keyword, filters by selection and top-N, and renders a bar chart.       *)
(*                                                                         *)
(* A data frame is modelled column-wise: [cols |-> <<names>>, data |->     *)
(* [name |-> <<cells>>]].  Numbers are exact rationals <<num, den>> with    *)
(* den > 0; <<1,0>> is +inf, <<-1,0>> is -inf and <<0,0>> is NaN.          *)
(***************************************************************************)
EXTENDS Integers, Sequences, FiniteSets, TLC

VARIABLES pc, df, notices, date_col, kw_col, vol_col,
          smoothing, value_column, show_mode,
          selected_keywords, top_n, plot_df, chart

vars == <<pc, df, notices, date_col, kw_col, vol_col,
          smoothing, value_column, show_mode,
          selected_keywords, top_n, plot_df, chart>>

\* ------------------------------------------------------------ bounds
\* Largest number of rows of a table fed to the transforms and the plot.
MaxRows == 3

\* --------------------------------------------------------- rationals
Abs(n) == IF n < 0 THEN 0 - n ELSE n

Sign(n) == IF n < 0 THEN 0 - 1 ELSE IF n > 0 THEN 1 ELSE 0

RECURSIVE GCD(_, _)
GCD(a, b) == IF b = 0 THEN a ELSE GCD(b, a % b)

\* The float n/d: finite when d # 0, else inf, -inf or NaN by the sign of n.
Rat(n, d) ==
    IF d = 0 THEN <<Sign(n), 0>>
    ELSE LET g == GCD(Abs(n), Abs(d))
             s == Sign(d)
         IN  <<(s * n) \div g, (s * d) \div g>>

Num(n) == <<n, 1>>
NaN == <<0, 0>>
Inf == <<1, 0>>

IsNaN(x) == x = NaN
IsFinite(x) == x[2] # 0

RAdd(x, y) == Rat(x[1] * y[2] + y[1] * x[2], x[2] * y[2])
RSub(x, y) == Rat(x[1] * y[2] - y[1] * x[2], x[2] * y[2])
RMul(x, y) == Rat(x[1] * y[1], x[2] * y[2])
RDiv(x, y) == Rat(x[1] * y[2], x[2] * y[1])
\* x < y on floats; every comparison with NaN is false.
RLess(x, y) == x[1] * y[2] < y[1] * x[2]

\* ------------------------------------------------------- data frames
NRows(d) == IF d.cols = <<>> THEN 0 ELSE Len(d.data[d.cols[1]])
Index(d) == 1..NRows(d)
HasCol(d, c) == \E k \in 1..Len(d.cols) : d.cols[k] = c

\* df[c] = column: replaces column c, or appends it when new.
SetCol(d, c, column) ==
    [cols |-> IF HasCol(d, c) THEN d.cols ELSE Append(d.cols, c),
     data |-> [n \in DOMAIN d.data \cup {c} |->
                 IF n = c THEN column ELSE d.data[n]]]

\* The increasing enumeration of a set of row positions.
RECURSIVE SortedSeq(_)
SortedSeq(S) ==
    IF S = {} THEN <<>>
    ELSE LET m == CHOOSE x \in S : \A y \in S : x <= y
         IN  <<m>> \o SortedSeq(S \ {m})

\* The cells of a column at the positions order[k], order[k+1], ...
RECURSIVE TakeCells(_, _, _)
TakeCells(column, order, k) ==
    IF k > Len(order) THEN <<>>
    ELSE <<column[order[k]]>> \o TakeCells(column, order, k + 1)

\* df.iloc[order]: the rows at the positions order[1], order[2], ...
TakeRows(d, order) ==
    [cols |-> d.cols,
     data |-> [n \in DOMAIN d.data |-> TakeCells(d.data[n], order, 1)]]

\* df[mask]: the rows whose position is in keep, in their order.
FilterRows(d, keep) == TakeRows(d, SortedSeq(keep))

\* ------------------------------------------------- values of the model
Keywords == <<"ChatGPT", "Bard">>
KeywordSet == {Keywords[k] : k \in 1..Len(Keywords)}
\* The position of a keyword in string order ("Bard" < "ChatGPT").
KeywordRank(k) == IF k = "Bard" THEN 1 ELSE 2

Timestamp(y, m, d) == [y |-> y, m |-> m, d |-> d]
NaT == [y |-> 0, m |-> 0, d |-> 0]
DateLess(a, b) ==
    \/ a.y < b.y
    \/ a.y = b.y /\ a.m < b.m
    \/ a.y = b.y /\ a.m = b.m /\ a.d < b.d

\* Dates and volumes of the tables fed to the transforms.
FrameDates == {Timestamp(2023, 1, 1), Timestamp(2023, 2, 1)}
Volumes == {Num(0), Num(2)}

EmptyFrame == [cols |-> <<>>, data |-> <<>>]
NoChart == [rendered |-> FALSE, keywords |-> {}]

\* A clean table: what lines 123-127 leave of a loaded table.
Frame(kw, dt, vol) ==
    [cols |-> <<"keyword", "date", "search_volume">>,
     data |-> [n \in {"keyword", "date", "search_volume"} |->
                 IF n = "keyword" THEN kw ELSE IF n = "date" THEN dt ELSE vol]]

\* ------------------------------------------- per-keyword transforms
\* groupby('keyword'): the positions of the rows of row i's keyword.
Group(d, i) == {j \in Index(d) : d.data["keyword"][j] = d.data["keyword"][i]}

RECURSIVE RSum(_, _)
RSum(column, S) ==
    IF S = {} THEN Num(0)
    ELSE LET j == CHOOSE x \in S : TRUE
         IN  RAdd(column[j], RSum(column, S \ {j}))

\* x.rolling(window=w, min_periods=1).mean() at row i of its group: the mean of
\* row i and the up to w-1 rows of the group before it in the frame's row order.
RollingMean(d, col, w, i) ==
    LET before == {j \in Group(d, i) : j <= i}
        window == {j \in before : Cardinality({k \in before : k > j}) < w}
    IN  RDiv(RSum(d.data[col], window), Num(Cardinality(window)))

RMin(column, S) == column[CHOOSE j \in S : \A k \in S : ~RLess(column[k], column[j])]
RMax(column, S) == column[CHOOSE j \in S : \A k \in S : ~RLess(column[j], column[k])]

\* Mutant of Normalized: min and max taken over the whole column, not per keyword.
NormalizedOverAll(d, col, i) ==
    LET x  == d.data[col]
        mn == RMin(x, Index(d))
        mx == RMax(x, Index(d))
    IN  IF RLess(mn, mx)
        THEN RMul(RDiv(RSub(x[i], mn), RSub(mx, mn)), Num(100))
        ELSE Num(50)

\* (x - x.min()) / (x.max() - x.min()) * 100 if x.max() > x.min() else 50
Normalized(d, col, i) ==
    LET x  == d.data[col]
        mn == RMin(x, Group(d, i))
        mx == RMax(x, Group(d, i))
    IN  IF RLess(mn, mx)
        THEN RMul(RDiv(RSub(x[i], mn), RSub(mx, mn)), Num(100))
        ELSE Num(50)

\* Row i sorts before row j under sort_values(['keyword', 'date']) (stable).
SortsBefore(d, i, j) ==
    LET ki == KeywordRank(d.data["keyword"][i])
        kj == KeywordRank(d.data["keyword"][j])
        di == d.data["date"][i]
        dj == d.data["date"][j]
    IN  \/ ki < kj
        \/ ki = kj /\ DateLess(di, dj)
        \/ ki = kj /\ di = dj /\ i < j

\* The positions S in sorted order.
RECURSIVE SortRows(_, _)
SortRows(d, S) ==
    IF S = {} THEN <<>>
    ELSE LET first == CHOOSE i \in S : \A j \in S : j = i \/ SortsBefore(d, i, j)
         IN  <<first>> \o SortRows(d, S \ {first})

SortOrder(d) == SortRows(d, Index(d))

sort_values(d) == TakeRows(d, SortOrder(d))

\* The row of i's group just before i, or 0 for the first row of the group.
PrevInGroup(d, i) ==
    LET before == {j \in Group(d, i) : j < i}
    IN  IF before = {} THEN 0 ELSE CHOOSE j \in before : \A k \in before : k <= j

\* Mutant of pct_change: df[col].pct_change() without the groupby.
pct_change_ungrouped(d, col, i) ==
    IF i = 1 THEN NaN
    ELSE RSub(RDiv(d.data[col][i], d.data[col][i - 1]), Num(1))

\* groupby('keyword')[col].pct_change() at row i: x / x.shift(1) - 1.
pct_change(d, col, i) ==
    LET p == PrevInGroup(d, i)
    IN  IF p = 0 THEN NaN
        ELSE RSub(RDiv(d.data[col][i], d.data[col][p]), Num(1))

fillna(x, v) == IF IsNaN(x) THEN v ELSE x

\* ----------------------------------------------------------- actions
\* Largest window of the smoothing slider.
SliderMax == 5

\* Lines 137-150, smoothing > 0.
ApplySmoothing ==
    /\ pc = "processed"
    /\ \E w \in 1..SliderMax :
         /\ w <= MaxRows
         /\ smoothing' = w
         /\ df' = SetCol(df, "smoothed_volume",
                         [i \in Index(df) |-> RollingMean(df, "search_volume", w, i)])
    /\ value_column' = "smoothed_volume"
    /\ pc' = "smoothed"
    /\ UNCHANGED <<notices, date_col, kw_col, vol_col, show_mode,
                   selected_keywords, top_n, plot_df, chart>>

\* Lines 137-150, smoothing = 0.
NoSmoothing ==
    /\ pc = "processed"
    /\ smoothing' = 0
    /\ value_column' = "search_volume"
    /\ pc' = "smoothed"
    /\ UNCHANGED <<df, notices, date_col, kw_col, vol_col, show_mode,
                   selected_keywords, top_n, plot_df, chart>>

\* Lines 153-159.
NormalizedMode ==
    /\ pc = "smoothed"
    /\ show_mode' = "Normalized Values (0-100)"
    /\ df' = SetCol(df, "display_value",
                    [i \in Index(df) |-> Normalized(df, value_column, i)])
    /\ pc' = "transformed"
    /\ UNCHANGED <<notices, date_col, kw_col, vol_col, smoothing, value_column,
                   selected_keywords, top_n, plot_df, chart>>

\* Lines 161-168.
GrowthMode ==
    /\ pc = "smoothed"
    /\ show_mode' = "Growth Rate (%)"
    /\ LET sorted == sort_values(df)
       IN  df' = SetCol(sorted, "display_value",
                        [i \in Index(sorted) |->
                           fillna(RMul(pct_change(sorted, value_column, i), Num(100)),
                                  Num(0))])
    /\ pc' = "transformed"
    /\ UNCHANGED <<notices, date_col, kw_col, vol_col, smoothing, value_column,
                   selected_keywords, top_n, plot_df, chart>>

\* Lines 170-173.
AbsoluteMode ==
    /\ pc = "smoothed"
    /\ show_mode' = "Absolute Values"
    /\ df' = SetCol(df, "display_value", df.data[value_column])
    /\ pc' = "transformed"
    /\ UNCHANGED <<notices, date_col, kw_col, vol_col, smoothing, value_column,
                   selected_keywords, top_n, plot_df, chart>>

\* The transforms, from every clean table of at most MaxRows rows in any row order.
InitTransform ==
    /\ pc = "processed"
    /\ \E n \in 1..MaxRows :
         \E kw \in [1..n -> KeywordSet], dt \in [1..n -> FrameDates],
            vol \in [1..n -> Volumes] :
           df = Frame(kw, dt, vol)
    /\ notices = {}
    /\ date_col = "date" /\ kw_col = "keyword" /\ vol_col = "search_volume"
    /\ smoothing = 0
    /\ value_column = "search_volume"
    /\ show_mode = "Absolute Values"
    /\ selected_keywords = {}
    /\ top_n = 0
    /\ plot_df = EmptyFrame
    /\ chart = NoChart

NextTransform ==
    \/ ApplySmoothing
    \/ NoSmoothing
    \/ NormalizedMode
    \/ GrowthMode
    \/ AbsoluteMode

Spec == InitTransform /\ [][NextTransform]_vars

\* ------------------------------------------------ selection and top N
Unique(column) == {column[i] : i \in 1..Len(column)}

\* date_df.nlargest(n, 'display_value') over the rows R: the n rows of largest
\* display value, the earlier row first among equal values (keep='first').
nlargest(d, n, R) ==
    LET v == d.data["display_value"]
    IN  {i \in R :
           Cardinality({j \in R : RLess(v[i], v[j]) \/ (v[j] = v[i] /\ j < i)}) < n}

\* Lines 212-221: the keywords of the top n rows of some date.
all_top_keywords(d, n) ==
    UNION {{d.data["keyword"][i] :
              i \in nlargest(d, n, {j \in Index(d) : d.data["date"][j] = date})} :
           date \in Unique(d.data["date"])}

\* Lines 176-202: the sidebar's selection and top-N inputs.
Controls ==
    /\ pc = "transformed"
    /\ selected_keywords' \in SUBSET Unique(df.data["keyword"])
    /\ top_n' \in 0..Cardinality(Unique(df.data["keyword"]))
    /\ pc' = "controls"
    /\ UNCHANGED <<df, notices, date_col, kw_col, vol_col, smoothing, value_column,
                   show_mode, plot_df, chart>>

\* Lines 204-207.
CreateFiltered ==
    /\ pc = "controls"
    /\ plot_df' = IF selected_keywords # {}
                  THEN FilterRows(df, {i \in Index(df) :
                                         df.data["keyword"][i] \in selected_keywords})
                  ELSE df
    /\ pc' = "filtered"
    /\ UNCHANGED <<df, notices, date_col, kw_col, vol_col, smoothing, value_column,
                   show_mode, selected_keywords, top_n, chart>>

\* Lines 210-223, top_n > 0.
TopNFilter ==
    /\ pc = "filtered"
    /\ top_n > 0
    /\ plot_df' = FilterRows(plot_df,
                     {i \in Index(plot_df) :
                        plot_df.data["keyword"][i] \in all_top_keywords(plot_df, top_n)})
    /\ pc' = "ranked"
    /\ UNCHANGED <<df, notices, date_col, kw_col, vol_col, smoothing, value_column,
                   show_mode, selected_keywords, top_n, chart>>

\* Lines 210-223, top_n = 0: nothing is filtered.
TopNOff ==
    /\ pc = "filtered"
    /\ top_n = 0
    /\ pc' = "ranked"
    /\ UNCHANGED <<df, notices, date_col, kw_col, vol_col, smoothing, value_column,
                   show_mode, selected_keywords, top_n, plot_df, chart>>

\* Lines 236-274: the chart is built from plot_df and displayed.
Render ==
    /\ pc = "ranked"
    /\ chart' = [rendered |-> TRUE, keywords |-> Unique(plot_df.data["keyword"])]
    /\ pc' = "rendered"
    /\ UNCHANGED <<df, notices, date_col, kw_col, vol_col, smoothing, value_column,
                   show_mode, selected_keywords, top_n, plot_df>>

\* The plot, from every table as 'Absolute Values' without smoothing leaves it.
InitPlot ==
    /\ pc = "transformed"
    /\ \E n \in 1..MaxRows :
         \E kw \in [1..n -> KeywordSet], dt \in [1..n -> FrameDates],
            vol \in [1..n -> Volumes] :
           df = SetCol(Frame(kw, dt, vol), "display_value", vol)
    /\ notices = {}
    /\ date_col = "date" /\ kw_col = "keyword" /\ vol_col = "search_volume"
    /\ smoothing = 0
    /\ value_column = "search_volume"
    /\ show_mode = "Absolute Values"
    /\ selected_keywords = {}
    /\ top_n = 0
    /\ plot_df = EmptyFrame
    /\ chart = NoChart

NextPlot ==
    \/ Controls
    \/ CreateFiltered
    \/ TopNFilter
    \/ TopNOff
    \/ Render

SpecPlot == InitPlot /\ [][NextPlot]_vars

\* ------------------------------------------------------ cells and dates
\* A cell of an uploaded CSV: the text "a<sep>b<sep>c" (kind "date"), another text
\* (kind "text"), a number a (kind "num"), or an empty cell (kind "null").
StrCell(a, b, c, sep) == [kind |-> "date", a |-> a, b |-> b, c |-> c, sep |-> sep]
TextCell == [kind |-> "text", a |-> 0, b |-> 0, c |-> 0, sep |-> ""]
NumCell(n) == [kind |-> "num", a |-> n, b |-> 0, c |-> 0, sep |-> ""]
NullCell == [kind |-> "null", a |-> 0, b |-> 0, c |-> 0, sep |-> ""]

\* pd.isna of a cell or of a parsed date.
IsNA(x) == IF "kind" \in DOMAIN x THEN x.kind = "null" ELSE x = NaT

DaysInMonth(y, m) ==
    IF m \in {4, 6, 9, 11} THEN 30
    ELSE IF m = 2
         THEN (IF y % 4 = 0 /\ (y % 100 # 0 \/ y % 400 = 0) THEN 29 ELSE 28)
         ELSE 31

\* %Y takes four digits, %m a month and %d a day of that month.
ValidDate(y, m, d) ==
    /\ y >= 1000 /\ y <= 9999
    /\ m >= 1 /\ m <= 12
    /\ d >= 1 /\ d <= DaysInMonth(y, m)

\* Line 63: the formats in the order they are tried.
Formats ==
    << [order |-> "Ymd", sep |-> "-"],
       [order |-> "mdY", sep |-> "/"],
       [order |-> "dmY", sep |-> "/"],
       [order |-> "Ymd", sep |-> "/"],
       [order |-> "dmY", sep |-> "-"],
       [order |-> "mdY", sep |-> "-"] >>

\* The fields of a text read in a field order, as <<year, month, day>>.
Fields(cell, order) ==
    IF order = "Ymd" THEN <<cell.a, cell.b, cell.c>>
    ELSE IF order = "mdY" THEN <<cell.c, cell.a, cell.b>>
    ELSE <<cell.c, cell.b, cell.a>>

\* Whether strptime reads the cell under the format (a number is matched as its text).
Matches(cell, fmt) ==
    /\ cell.kind = "date"
    /\ cell.sep = fmt.sep
    /\ LET f == Fields(cell, fmt.order) IN ValidDate(f[1], f[2], f[3])

strptime(cell, fmt) ==
    LET f == Fields(cell, fmt.order) IN Timestamp(f[1], f[2], f[3])

\* pd.to_datetime(column, format=fmt) raises when a non-empty cell does not match.
FormatRaises(column, fmt) ==
    \E i \in 1..Len(column) : ~IsNA(column[i]) /\ ~Matches(column[i], fmt)

to_datetime_format(column, fmt) ==
    [i \in 1..Len(column) |->
       IF IsNA(column[i]) THEN NaT ELSE strptime(column[i], fmt)]

\* The field order the permissive parser (dayfirst=False) reads a text in: year
\* first when the text starts with the year, else month first, and day first only
\* when month first gives no date; "" when the text is no date.
GuessOrder(cell) ==
    IF cell.kind # "date" THEN ""
    ELSE IF ValidDate(cell.a, cell.b, cell.c) THEN "Ymd"
    ELSE IF ValidDate(cell.c, cell.a, cell.b) THEN "mdY"
    ELSE IF ValidDate(cell.c, cell.b, cell.a) THEN "dmY"
    ELSE ""

Epoch == Timestamp(1970, 1, 1)

\* One cell parsed alone by the permissive parser; a number counts from the epoch.
ParseCell(cell) ==
    IF cell.kind = "num" THEN Epoch
    ELSE IF GuessOrder(cell) = "" THEN NaT
    ELSE strptime(cell, [order |-> GuessOrder(cell), sep |-> cell.sep])

\* Line 69: pd.to_datetime(column, errors='coerce').  pandas 1.x parses every cell
\* alone; pandas 2.x guesses the format from the first non-empty cell and reads the
\* column with it, a cell that does not match becoming NaT, and parses every cell
\* alone when it can guess none.
to_datetime_coerce(column, pandas) ==
    LET filled == {i \in 1..Len(column) : ~IsNA(column[i])}
        first  == IF filled = {} THEN NullCell
                  ELSE column[CHOOSE i \in filled : \A j \in filled : i <= j]
        guess  == [order |-> GuessOrder(first), sep |-> first.sep]
    IN  IF pandas = 1 \/ guess.order = ""
        THEN [i \in 1..Len(column) |-> ParseCell(column[i])]
        ELSE [i \in 1..Len(column) |->
                IF Matches(column[i], guess) THEN strptime(column[i], guess) ELSE NaT]

\* Lines 63-68 from format k on: the first format that does not raise is adopted.
RECURSIVE TryFormats(_, _, _)
TryFormats(column, k, pandas) ==
    IF k > Len(Formats) THEN to_datetime_coerce(column, pandas)
    ELSE IF ~FormatRaises(column, Formats[k])
         THEN to_datetime_format(column, Formats[k])
         ELSE TryFormats(column, k + 1, pandas)

\* Mutant of parse_dates: every cell is read with the first format that fits it.
parse_dates_per_cell(d, date_column, pandas) ==
    SetCol(d, "date",
           [i \in 1..Len(d.data[date_column]) |->
              TryFormats(<<d.data[date_column][i]>>, 1, pandas)[1]])

\* Lines 62-70.  The caller guarantees that date_column is a column.
parse_dates(d, date_column, pandas) ==
    SetCol(d, "date", TryFormats(d.data[date_column], 1, pandas))

\* The cells of the date columns that are parsed.
DateCells ==
    { NullCell, TextCell,
      StrCell(3, 4, 2023, "/"), StrCell(13, 4, 2023, "/"), StrCell(4, 13, 2023, "/"),
      StrCell(31, 4, 2023, "/"), StrCell(2023, 4, 3, "-"), StrCell(2023, 4, 3, "/"),
      StrCell(3, 4, 2023, "-"), StrCell(13, 4, 2023, "-") }

PandasVersions == {1, 2}

\* Line 95: parse_dates on the detected date column.
ParseDates ==
    /\ pc = "date_resolved"
    /\ \E pandas \in PandasVersions : df' = parse_dates(df, date_col, pandas)
    /\ pc' = "parsed"
    /\ UNCHANGED <<notices, date_col, kw_col, vol_col, smoothing, value_column,
                   show_mode, selected_keywords, top_n, plot_df, chart>>

\* The date parser, on every column "Date" of at most MaxRows cells.
InitParse ==
    /\ pc = "date_resolved"
    /\ \E n \in 1..MaxRows :
         \E column \in [1..n -> DateCells] :
           df = [cols |-> <<"Date">>, data |-> [c \in {"Date"} |-> column]]
    /\ notices = {}
    /\ date_col = "Date" /\ kw_col = "keyword" /\ vol_col = "search_volume"
    /\ smoothing = 0
    /\ value_column = "search_volume"
    /\ show_mode = "Absolute Values"
    /\ selected_keywords = {}
    /\ top_n = 0
    /\ plot_df = EmptyFrame
    /\ chart = NoChart

NextParse == ParseDates

SpecParse == InitParse /\ [][NextParse]_vars

\* ------------------------------------------------------ loading a table
\* Largest number of columns of an uploaded table.
MaxCols == 3

\* Headers of the uploaded tables.
ColumnNames == {"keyword", "date", "search_volume", "Search_Volume", "date_volume", "term"}

\* c.lower()
Lower(c) == IF c = "Search_Volume" THEN "search_volume" ELSE c

\* Which of the tokens the script searches for occur in a lower-case header.
SubstringsOf(s) ==
    CASE s = "keyword" -> {"keyword"}
      [] s = "date" -> {"date"}
      [] s = "search_volume" -> {"search_volume", "volume"}
      [] s = "date_volume" -> {"date", "volume"}
      [] s = "term" -> {"term"}
      [] OTHER -> {}

\* any(tok in c.lower() for tok in tokens)
HasAny(c, tokens) == SubstringsOf(Lower(c)) \cap tokens # {}

\* The value of a selectbox without options, and of a role not resolved by name.
None == "None"

\* next((col for col in df.columns if any token in col.lower()), None)
FirstWith(d, tokens) ==
    LET hits == {k \in 1..Len(d.cols) : HasAny(d.cols[k], tokens)}
    IN  IF hits = {} THEN None
        ELSE d.cols[CHOOSE k \in hits : \A j \in hits : k <= j]

\* What st.selectbox can return: one of the options, or None when there is none.
Selectbox(options) == IF options = {} THEN {None} ELSE options

\* df.rename(columns={old: new}); a name that is no column renames nothing.
Rename(d, old, new) ==
    IF ~HasCol(d, old) THEN d
    ELSE [cols |-> [k \in 1..Len(d.cols) |-> IF d.cols[k] = old THEN new ELSE d.cols[k]],
          data |-> [n \in (DOMAIN d.data \ {old}) \cup {new} |->
                      IF n = new THEN d.data[old] ELSE d.data[n]]]

\* Line 85: the required names that occur in no header.
missing_columns(d) ==
    {col \in {"keyword", "date", "search_volume"} :
       ~\E k \in 1..Len(d.cols) : HasAny(d.cols[k], {col})}

\* Lines 27-59: the sample table keeps its dates as YYYY-MM-DD texts.
generate_sample_data ==
    [cols |-> <<"keyword", "date", "search_volume">>,
     data |-> [n \in {"keyword", "date", "search_volume"} |->
                 IF n = "keyword" THEN <<TextCell, TextCell>>
                 ELSE IF n = "date"
                      THEN <<StrCell(2023, 1, 1, "-"), StrCell(2023, 2, 1, "-")>>
                      ELSE <<NumCell(120), NumCell(114)>>]]

\* The columns of the uploaded tables, two rows each: dates with a cell that is no
\* date, clean dates, numbers with an empty cell, and clean numbers.
ColumnContents ==
    { <<StrCell(2023, 4, 3, "-"), TextCell>>,
      <<StrCell(2023, 4, 3, "-"), StrCell(2023, 5, 1, "-")>>,
      <<NumCell(10), NullCell>>,
      <<NumCell(10), NumCell(20)>> }

\* pd.to_numeric(cell, errors='coerce')
to_numeric(cell) == IF cell.kind = "num" THEN Num(cell.a) ELSE NaN

\* Lines 118-120: nothing was uploaded.
UseSample ==
    /\ pc = "start"
    /\ notices' = notices \cup {"info: using sample data"}
    /\ df' = generate_sample_data
    /\ pc' = "loaded"
    /\ UNCHANGED <<date_col, kw_col, vol_col, smoothing, value_column, show_mode,
                   selected_keywords, top_n, plot_df, chart>>

\* Lines 75, 114-117: pd.read_csv raises.
UploadUnreadable ==
    /\ pc = "start"
    /\ notices' = notices \cup {"error", "info: using sample data"}
    /\ df' = generate_sample_data
    /\ pc' = "loaded"
    /\ UNCHANGED <<date_col, kw_col, vol_col, smoothing, value_column, show_mode,
                   selected_keywords, top_n, plot_df, chart>>

\* Lines 75-81: the uploaded table has fewer than two rows.
UploadTooShort ==
    /\ pc = "start"
    /\ notices' = notices \cup {"error: at least 2 data points", "info: using sample data"}
    /\ df' = generate_sample_data
    /\ pc' = "loaded"
    /\ UNCHANGED <<date_col, kw_col, vol_col, smoothing, value_column, show_mode,
                   selected_keywords, top_n, plot_df, chart>>

\* Line 75: a table of two rows and at most MaxCols columns is read.
Upload ==
    /\ pc = "start"
    /\ \E n \in 1..MaxCols :
         \E names \in [1..n -> ColumnNames], contents \in [1..n -> ColumnContents] :
           /\ \A j \in 1..n, k \in 1..n : names[j] = names[k] => j = k
           /\ df' = [cols |-> names,
                     data |-> [c \in {names[k] : k \in 1..n} |->
                                 contents[CHOOSE k \in 1..n : names[k] = c]]]
    /\ pc' = "uploaded"
    /\ UNCHANGED <<notices, date_col, kw_col, vol_col, smoothing, value_column,
                   show_mode, selected_keywords, top_n, plot_df, chart>>

\* Lines 84-87, 110-113: every required name occurs in a header and 'date' is a column.
StandardColumns ==
    /\ pc = "uploaded"
    /\ missing_columns(df) = {}
    /\ HasCol(df, "date")
    /\ \E pandas \in PandasVersions : df' = parse_dates(df, "date", pandas)
    /\ notices' = notices \cup {"success"}
    /\ pc' = "loaded"
    /\ UNCHANGED <<date_col, kw_col, vol_col, smoothing, value_column, show_mode,
                   selected_keywords, top_n, plot_df, chart>>

\* Lines 84-87, 110-111, 114-117: every required name occurs in a header but 'date'
\* is no column: df['date'] raises KeyError in parse_dates, on line 69 at last.
StandardColumnsKeyError ==
    /\ pc = "uploaded"
    /\ missing_columns(df) = {}
    /\ ~HasCol(df, "date")
    /\ notices' = notices \cup {"error", "info: using sample data"}
    /\ df' = generate_sample_data
    /\ pc' = "loaded"
    /\ UNCHANGED <<date_col, kw_col, vol_col, smoothing, value_column, show_mode,
                   selected_keywords, top_n, plot_df, chart>>

\* Lines 87-95: a required name is missing; the date column is detected or selected,
\* then parsed.
DetectDate ==
    /\ pc = "uploaded"
    /\ missing_columns(df) # {}
    /\ \E col \in (IF FirstWith(df, {"date"}) # None
                   THEN {FirstWith(df, {"date"})}
                   ELSE Selectbox({df.cols[k] : k \in 1..Len(df.cols)})) :
         /\ date_col' = col
         /\ \E pandas \in PandasVersions : df' = parse_dates(df, col, pandas)
    /\ notices' = notices \cup {"warning: columns may be missing"}
    /\ pc' = "date_parsed"
    /\ UNCHANGED <<kw_col, vol_col, smoothing, value_column, show_mode,
                   selected_keywords, top_n, plot_df, chart>>

\* Lines 97-102.
DetectKeyword ==
    /\ pc = "date_parsed"
    /\ IF HasCol(df, "keyword")
       THEN UNCHANGED <<df, kw_col>>
       ELSE \E col \in (IF FirstWith(df, {"keyword", "term", "kw"}) # None
                        THEN {FirstWith(df, {"keyword", "term", "kw"})}
                        ELSE Selectbox({df.cols[k] : k \in 1..Len(df.cols)} \ {date_col})) :
              /\ kw_col' = col
              /\ df' = Rename(df, col, "keyword")
    /\ pc' = "keyword_resolved"
    /\ UNCHANGED <<notices, date_col, vol_col, smoothing, value_column, show_mode,
                   selected_keywords, top_n, plot_df, chart>>

\* Lines 104-109, 113.
DetectVolume ==
    /\ pc = "keyword_resolved"
    /\ IF HasCol(df, "search_volume")
       THEN UNCHANGED <<df, vol_col>>
       ELSE \E col \in (IF FirstWith(df, {"volume", "demand", "traffic"}) # None
                        THEN {FirstWith(df, {"volume", "demand", "traffic"})}
                        ELSE Selectbox({df.cols[k] : k \in 1..Len(df.cols)}
                                         \ {date_col, "keyword"})) :
              /\ vol_col' = col
              /\ df' = Rename(df, col, "search_volume")
    /\ notices' = notices \cup {"success"}
    /\ pc' = "loaded"
    /\ UNCHANGED <<date_col, kw_col, smoothing, value_column, show_mode,
                   selected_keywords, top_n, plot_df, chart>>

\* Mutant of dropna: subset=['search_volume'] only.
dropna_volume_only(d) ==
    FilterRows(d, {i \in Index(d) : ~IsNA(d.data["search_volume"][i])})

\* df.dropna(subset=['date', 'search_volume'])
dropna(d) ==
    FilterRows(d, {i \in Index(d) :
                     ~IsNA(d.data["date"][i]) /\ ~IsNA(d.data["search_volume"][i])})

\* Lines 126-127: to_numeric, then the rows without a number are dropped.
numeric_rows(d) ==
    LET converted == SetCol(d, "search_volume",
                            [i \in Index(d) |-> to_numeric(d.data["search_volume"][i])])
    IN  FilterRows(converted,
                   {i \in Index(converted) : ~IsNaN(converted.data["search_volume"][i])})

\* Lines 122-127.
Process ==
    /\ pc = "loaded"
    /\ HasCol(df, "date") /\ HasCol(df, "search_volume")
    /\ df' = numeric_rows(dropna(df))
    /\ pc' = "processed"
    /\ UNCHANGED <<notices, date_col, kw_col, vol_col, smoothing, value_column,
                   show_mode, selected_keywords, top_n, plot_df, chart>>

\* Line 123 outside any try: dropna raises KeyError when 'date' or 'search_volume'
\* is no column, and the run ends with the exception.
ProcessKeyError ==
    /\ pc = "loaded"
    /\ ~(HasCol(df, "date") /\ HasCol(df, "search_volume"))
    /\ pc' = "crashed"
    /\ UNCHANGED <<df, notices, date_col, kw_col, vol_col, smoothing, value_column,
                   show_mode, selected_keywords, top_n, plot_df, chart>>

\* A run of the script from its start to the point where the transforms begin.
InitLoad ==
    /\ pc = "start"
    /\ df = EmptyFrame
    /\ notices = {}
    /\ date_col = None /\ kw_col = None /\ vol_col = None
    /\ smoothing = 0
    /\ value_column = "search_volume"
    /\ show_mode = "Absolute Values"
    /\ selected_keywords = {}
    /\ top_n = 0
    /\ plot_df = EmptyFrame
    /\ chart = NoChart

NextLoad ==
    \/ UseSample
    \/ UploadUnreadable
    \/ UploadTooShort
    \/ Upload
    \/ StandardColumns
    \/ StandardColumnsKeyError
    \/ DetectDate
    \/ DetectKeyword
    \/ DetectVolume
    \/ Process
    \/ ProcessKeyError

SpecLoad == InitLoad /\ [][NextLoad]_vars

\* ------------------------------------------------------------ claims
\* C1: in 'Normalized Values (0-100)' mode every row's display value is
\* (v - min) / (max - min) * 100 with min and max taken over the rows of its own
\* keyword (v raw, or smoothed when smoothing is on); a group with max > min has
\* display values 0 at its minimum and 100 at its maximum, all within 0..100,
\* and a group whose values are all equal has display value 50 on every row.
C1_NormalizePerKeyword ==
    (pc = "transformed" /\ show_mode = "Normalized Values (0-100)") =>
      /\ value_column = (IF smoothing > 0 THEN "smoothed_volume" ELSE "search_volume")
      /\ \A i \in Index(df) :
           LET G    == Group(df, i)
               v    == df.data[value_column]
               disp == df.data["display_value"]
           IN  \E lo \in G, hi \in G :
                 /\ \A k \in G : ~RLess(v[k], v[lo]) /\ ~RLess(v[hi], v[k])
                 /\ IF v[lo] # v[hi]
                    THEN /\ RMul(disp[i], RSub(v[hi], v[lo]))
                              = RMul(RSub(v[i], v[lo]), Num(100))
                         /\ disp[lo] = Num(0)
                         /\ disp[hi] = Num(100)
                         /\ ~RLess(disp[i], Num(0)) /\ ~RLess(Num(100), disp[i])
                    ELSE disp[i] = Num(50)

\* C1 witness: smoothed, normalized data where one keyword spans 0..100 and another
\* keyword has a single row, shown as 50.
C1_Witness ==
    /\ pc = "transformed" /\ show_mode = "Normalized Values (0-100)"
    /\ smoothing > 0
    /\ \E i \in Index(df), j \in Index(df) :
         /\ df.data["keyword"][i] # df.data["keyword"][j]
         /\ df.data["display_value"][i] = Num(100)
         /\ \E k \in Group(df, i) : df.data["display_value"][k] = Num(0)
         /\ Group(df, j) = {j}
         /\ df.data["display_value"][j] = Num(50)

\* C2: in 'Growth Rate (%)' mode the rows of every keyword stand in ascending date
\* order, the first row of each keyword has display value 0, and every later row
\* whose previous row of the same keyword is nonzero has display value
\* (v[i] - v[i-1]) / v[i-1] * 100; no row is computed from another keyword's row.
C2_GrowthPerKeyword ==
    (pc = "transformed" /\ show_mode = "Growth Rate (%)") =>
      \A i \in Index(df) :
        LET v    == df.data[value_column]
            disp == df.data["display_value"]
            before == {j \in Index(df) :
                         j < i /\ df.data["keyword"][j] = df.data["keyword"][i]}
        IN  IF before = {}
            THEN disp[i] = Num(0)
            ELSE \E p \in before :
                   /\ \A k \in before : k <= p
                   /\ ~DateLess(df.data["date"][i], df.data["date"][p])
                   /\ v[p] # Num(0) =>
                        disp[i] = RMul(RDiv(RSub(v[i], v[p]), v[p]), Num(100))

\* C2 witness: a keyword's first row directly follows a different, nonzero value of
\* another keyword, and some later row shows a nonzero growth over its own keyword's
\* previous nonzero row.
C2_Witness ==
    /\ pc = "transformed" /\ show_mode = "Growth Rate (%)"
    /\ \E i \in Index(df) :
         /\ i > 1
         /\ df.data["keyword"][i - 1] # df.data["keyword"][i]
         /\ df.data[value_column][i - 1] # Num(0)
         /\ df.data[value_column][i] # df.data[value_column][i - 1]
    /\ \E i \in Index(df) :
         /\ PrevInGroup(df, i) # 0
         /\ df.data[value_column][PrevInGroup(df, i)] # Num(0)
         /\ df.data["display_value"][i] # Num(0)

\* The rows of row i's keyword that come no later than row i in ascending timestamp
\* order (rows of equal date in their row order).
EarlierByDate(d, i) ==
    {j \in Group(d, i) :
       \/ DateLess(d.data["date"][j], d.data["date"][i])
       \/ d.data["date"][j] = d.data["date"][i] /\ j <= i}

\* C3 (as claimed): with a smoothing window w >= 1 every row's smoothed value is the
\* mean of that row and the up to w-1 rows of the same keyword that precede it in
\* ascending timestamp order, whatever the row order of the input.
C3_SmoothingInTimestampOrder ==
    (pc = "smoothed" /\ smoothing >= 1) =>
      \A i \in Index(df) :
        LET earlier == EarlierByDate(df, i)
            window  == {j \in earlier :
                          Cardinality({k \in earlier : k # j /\ j \in EarlierByDate(df, k)})
                            < smoothing}
        IN  df.data["smoothed_volume"][i]
              = RDiv(RSum(df.data["search_volume"], window), Num(Cardinality(window)))

\* The largest display value of keyword k on date t among the rows R of d.
ValueOn(d, R, k, t) ==
    RMax(d.data["display_value"],
         {i \in R : d.data["keyword"][i] = k /\ d.data["date"][i] = t})

\* C7 (as claimed, for a non-empty selection): with top-N cutoff N > 0 the plotted
\* keywords are exactly the union over the dates of the N keywords of largest display
\* value on that date among the selected keywords (fewer when the date has fewer),
\* each kept with all its rows; with N = 0 no selected keyword is removed.
C7_TopNUnion ==
    (pc = "ranked" /\ selected_keywords # {}) =>
      LET R   == {i \in Index(df) : df.data["keyword"][i] \in selected_keywords}
          D   == {df.data["date"][i] : i \in R}
          present(t) == {df.data["keyword"][i] : i \in {j \in R : df.data["date"][j] = t}}
          IsTop(S, t) ==
              /\ S \subseteq present(t)
              /\ Cardinality(S) = IF top_n < Cardinality(present(t))
                                  THEN top_n ELSE Cardinality(present(t))
              /\ \A a \in S, b \in present(t) \ S :
                   ~RLess(ValueOn(df, R, a, t), ValueOn(df, R, b, t))
      IN  IF top_n = 0
          THEN plot_df = FilterRows(df, R)
          ELSE \E f \in [D -> SUBSET KeywordSet] :
                 /\ \A t \in D : IsTop(f[t], t)
                 /\ plot_df = FilterRows(df, {i \in R :
                                  df.data["keyword"][i] \in UNION {f[t] : t \in D}})

\* C10 (as claimed): with an empty selection no chart is rendered and a neutral notice
\* is shown, and a rendered chart never holds a keyword the user has not selected.
C10_EmptySelectionSkipsChart ==
    pc = "rendered" =>
      /\ chart.keywords \subseteq selected_keywords
      /\ selected_keywords = {} => (~chart.rendered /\ notices # {})

\* Every non-empty cell of the column parses under format k.
AllParse(column, k) ==
    \A i \in 1..Len(column) : IsNA(column[i]) \/ Matches(column[i], Formats[k])

\* C4: the first of the six formats, in their fixed order, under which every
\* non-empty cell parses is adopted for the whole column: every cell is read with
\* that one format (an empty cell gives no date), and the date column has as many
\* rows as the input.
C4_OneFormatPerColumn ==
    pc = "parsed" =>
      LET column == df.data["Date"]
          dates  == df.data["date"]
      IN  /\ Len(dates) = Len(column)
          /\ \A k \in 1..Len(Formats) :
               (AllParse(column, k) /\ \A j \in 1..(k - 1) : ~AllParse(column, j)) =>
                 \A i \in 1..Len(column) :
                   dates[i] = IF column[i].kind = "null" THEN NaT
                              ELSE strptime(column[i], Formats[k])

\* C4 witness: a column holding the ambiguous 03/04/2023 and 04/13/2023, read as a
\* whole month first: 4 March and 13 April.
C4_Witness ==
    /\ pc = "parsed"
    /\ \E i \in Index(df), j \in Index(df) :
         /\ df.data["Date"][i] = StrCell(3, 4, 2023, "/")
         /\ df.data["Date"][j] = StrCell(4, 13, 2023, "/")
         /\ df.data["date"][i] = Timestamp(2023, 3, 4)
         /\ df.data["date"][j] = Timestamp(2023, 4, 13)

\* A cell read alone, day first.
DayFirst(cell) ==
    IF cell.kind # "date" THEN NaT
    ELSE IF ValidDate(cell.a, cell.b, cell.c) THEN Timestamp(cell.a, cell.b, cell.c)
    ELSE IF ValidDate(cell.c, cell.b, cell.a) THEN Timestamp(cell.c, cell.b, cell.a)
    ELSE IF ValidDate(cell.c, cell.a, cell.b) THEN Timestamp(cell.c, cell.a, cell.b)
    ELSE NaT

\* C5 (as claimed): when no format parses the whole column, every cell is parsed on
\* its own, day first (03/04/2023 is 3 April), and a cell that cannot be parsed
\* becomes null.
C5_FallbackDayFirst ==
    (pc = "parsed" /\ \A k \in 1..Len(Formats) : ~AllParse(df.data["Date"], k)) =>
      \A i \in Index(df) : df.data["date"][i] = DayFirst(df.data["Date"][i])

C8_RolesDistinct ==
    pc = "loaded" =>
      LET date == IF HasAny(date_col, {"date"}) THEN {date_col} ELSE {}
          kw   == IF HasAny(kw_col, {"keyword", "term", "kw"}) THEN {kw_col} ELSE {}
          vol  == IF HasAny(vol_col, {"volume", "demand", "traffic"}) THEN {vol_col} ELSE {}
      IN  date \cap kw = {} /\ date \cap vol = {} /\ kw \cap vol = {}

\* C9 (as claimed): no upload makes the run end with an unhandled error; a failure
\* is reported and the run goes on.
C9_NoUnhandledError == pc # "crashed"

====
